---- MODULE Spec2Model ----
(***************************************************************************)
(* TextureManager: loading of textures, their realization once per frame   *)
(* in update(), the fallback to the default texture when a fetch fails and *)
(* the release of the textures in destroy().                               *)
(*                                                                         *)
(* Every handler of the single-threaded event loop is one action: the      *)
(* public methods (getTexture, loadTexture2D, update, destroy) and the two *)
(* promise callbacks of fetchTexture2D.                                    *)
(***************************************************************************)
EXTENDS Integers, Sequences, FiniteSets, TLC

\* ---------------------------------------------------------------- bounds
MaxRequests == 2      \* loadTexture2D calls in one behaviour
MaxTextures == 2      \* Texture objects constructed in one behaviour
MaxDim == 8           \* widths and heights 1..MaxDim, besides 37 and 50
MaxLiveRequests == 4  \* loadTexture2D calls in one behaviour of LiveSpec

Keys == {"a", "b"}
Frames == {0, 1}

\* ---------------------------------------------------------------- values
\* A value stored in the table or in _defaultTexture: undefined, one of the
\* context's default textures, or a Texture built by createTexture.
Undefined == [kind |-> "undefined", n |-> 0]
DefaultTex(i) == [kind |-> "default", n |-> i]
Tex(i) == [kind |-> "texture", n |-> i]

Defaults == {DefaultTex(1), DefaultTex(2)}
Created == {Tex(i) : i \in 1 .. MaxTextures}
Handles == Defaults \cup Created

\* Core/defined.js as used by the manager: the value is not undefined.
defined(v) == v # Undefined

VARIABLES
    defaultTexture,    \* this._defaultTexture
    textures,          \* this._textures: value per key (Undefined when unset)
    keyOrder,          \* own keys of this._textures, in insertion order
    loadedImages,      \* this._loadedImages
    lastUpdatedFrame,  \* this._lastUpdatedFrame
    destroyed,         \* destroyObject(this) has run
    destroyCalled,     \* destroy() has been called, whether or not it returned
    inflight,          \* fetchImage() promises not yet settled
    nextRequest,       \* number of loadTexture2D calls made so far
    origin,            \* origin[i]: request the Texture Tex(i) was built from
    destroyCalls,      \* per texture, the texture.destroy() invocations so far:
                       \* "none", "once" or "again" (more than once)
    lastOp,            \* the handler that ran last, its inputs and outcome
    requested,         \* texture ids passed to loadTexture2D so far
    policy             \* one run of createTexture on its own: the uniform and
                       \* the context it is given and the texture it builds

vars == <<defaultTexture, textures, keyOrder, loadedImages, lastUpdatedFrame,
          destroyed, destroyCalled, inflight, nextRequest, origin, destroyCalls,
          lastOp, requested, policy>>

NoOp == [op |-> "none", afterLoad |-> FALSE, live |-> TRUE, key |-> "", frame |-> -1, result |-> "ok",
         value |-> Undefined, queue |-> <<>>, built |-> 0, old |-> Undefined]

Op(name, k, f, res, val) ==
    [op |-> name, afterLoad |-> (name = "update" /\ lastOp.op = "loadTexture2D"),
     live |-> ~destroyed, key |-> k, frame |-> f, result |-> res,
     value |-> val, queue |-> loadedImages, built |-> Len(origin),
     old |-> IF k \in Keys THEN textures[k] ELSE Undefined]

\* a method of the destroyed manager was called: it throws whatever it is given
Thrown(name) ==
    [NoOp EXCEPT !.op = name, !.live = FALSE, !.result = "DeveloperError",
                 !.queue = loadedImages, !.built = Len(origin)]

\* no run of createTexture on its own is followed
Idle == [phase |-> "idle"]

\* ------------------------------------------------------------ constructor
Init ==
    /\ policy = Idle
    /\ defaultTexture = Undefined
    /\ textures = [k \in Keys |-> Undefined]
    /\ keyOrder = <<>>
    /\ loadedImages = <<>>
    /\ lastUpdatedFrame = -1
    /\ destroyed = FALSE
    /\ destroyCalled = FALSE
    /\ inflight = {}
    /\ nextRequest = 0
    /\ origin = <<>>
    /\ destroyCalls = [t \in Handles |-> "none"]
    /\ lastOp = NoOp
    /\ requested = {}

\* ------------------------------------------------ collaborators (Renderer)
\* Texture.prototype.destroy releases the texture and passes it to
\* destroyObject, so a second invocation throws a DeveloperError.
TextureDestroyThrows(dc, t) == dc[t] # "none"

TextureDestroy(dc, t) == [dc EXCEPT ![t] = IF @ = "none" THEN "once" ELSE "again"]

\* destroyObject(this): every method but isDestroyed now throws, the fields
\* are left as they are.
destroyObject == destroyed' = TRUE

\* ---------------------------------------------------------------- helpers
Range(s) == {s[i] : i \in 1 .. Len(s)}

\* assignment this._textures[id] = value (a new own key goes last)
SetTexture(st, id, value) ==
    [st EXCEPT !.textures = [@ EXCEPT ![id] = value],
               !.keyOrder = IF id \in Range(@) THEN @ ELSE Append(@, id)]

\* A texture uniform either has a typedArray (raw) or a resource to fetch.
Uniforms == [raw : BOOLEAN]

\* A loaded image: the texture id, the uniform, and the number of the
\* loadTexture2D call it stems from, which tells the entries of one id apart.
LoadedImage(id, u) == [id |-> id, req |-> nextRequest + 1, raw |-> u.raw]

\* ------------------------------------------------------------- getTexture
getTexture(textureId) == textures[textureId]

\* (variant: a lookup that installs the default texture for a missing key)
GetTextureInstalls(textureId) ==
    /\ lastOp' = IF destroyed
                 THEN Thrown("getTexture")
                 ELSE Op("getTexture", textureId, -1, "ok", getTexture(textureId))
    /\ textures' = IF destroyed \/ defined(textures[textureId]) THEN textures
                   ELSE [textures EXCEPT ![textureId] = defaultTexture]
    /\ UNCHANGED <<defaultTexture, keyOrder, loadedImages, lastUpdatedFrame,
                   destroyed, destroyCalled, inflight, nextRequest, origin,
                   destroyCalls, requested, policy>>

GetTexture(textureId) ==
    /\ lastOp' = IF destroyed
                 THEN Thrown("getTexture")
                 ELSE Op("getTexture", textureId, -1, "ok", getTexture(textureId))
    /\ UNCHANGED <<defaultTexture, textures, keyOrder, loadedImages, lastUpdatedFrame,
                   destroyed, destroyCalled, inflight, nextRequest, origin,
                   destroyCalls, requested, policy>>

\* ---------------------------------------------------------- loadTexture2D
\* (variant: unshift instead of push)
PushLoadedFront(images, loadedImage) == <<loadedImage>> \o images

PushLoaded(images, loadedImage) == Append(images, loadedImage)

\* (variant: the entry is queued at once for a resource as well)
loadTexture2DQueuesAll(textureId, textureUniform) ==
    /\ loadedImages' = PushLoaded(loadedImages, LoadedImage(textureId, textureUniform))
    /\ inflight' = IF textureUniform.raw THEN inflight
                   ELSE inflight \cup {LoadedImage(textureId, textureUniform)}

loadTexture2D(textureId, textureUniform) ==
    IF textureUniform.raw
    THEN /\ loadedImages' = PushLoaded(loadedImages, LoadedImage(textureId, textureUniform))
         /\ UNCHANGED inflight
    ELSE /\ inflight' = inflight \cup {LoadedImage(textureId, textureUniform)}
         /\ UNCHANGED loadedImages

\* limit: the number of loadTexture2D calls that are followed
LoadTexture2DWithin(limit, textureId, textureUniform) ==
    /\ IF destroyed
       THEN /\ lastOp' = Thrown("loadTexture2D")
            /\ UNCHANGED <<loadedImages, inflight, nextRequest, requested>>
       ELSE /\ nextRequest < limit
            /\ nextRequest' = nextRequest + 1
            /\ requested' = requested \cup {textureId}
            /\ loadTexture2D(textureId, textureUniform)
            /\ lastOp' = Op("loadTexture2D", textureId, -1, "ok", Undefined)
    /\ UNCHANGED <<defaultTexture, textures, keyOrder, lastUpdatedFrame, destroyed,
                   destroyCalled, origin, destroyCalls, policy>>

LoadTexture2D(textureId, textureUniform) ==
    LoadTexture2DWithin(MaxRequests, textureId, textureUniform)

\* --------------------------------------------------------- fetchTexture2D
\* .then(): the image arrived
FetchSuccess(request) ==
    /\ request \in inflight
    /\ inflight' = inflight \ {request}
    /\ loadedImages' = PushLoaded(loadedImages, request)
    /\ lastOp' = Op("fetchSuccess", request.id, -1, "ok", Undefined)
    /\ UNCHANGED <<defaultTexture, textures, keyOrder, lastUpdatedFrame, destroyed,
                   destroyCalled, nextRequest, origin, destroyCalls, requested, policy>>

\* .otherwise(): the fetch failed
FailureDestroys(texture, default) == defined(texture) /\ texture # default

FailureFallback(default) == default

FetchFailure(request) ==
    LET texture == textures[request.id]
        st == [textures |-> textures, keyOrder |-> keyOrder]
        destroys == FailureDestroys(texture, defaultTexture)
        throws == destroys /\ TextureDestroyThrows(destroyCalls, texture)
        after == IF throws THEN st
                 ELSE SetTexture(st, request.id, FailureFallback(defaultTexture))
    IN  /\ request \in inflight
        /\ inflight' = inflight \ {request}
        /\ destroyCalls' = IF destroys THEN TextureDestroy(destroyCalls, texture)
                           ELSE destroyCalls
        /\ textures' = after.textures
        /\ keyOrder' = after.keyOrder
        /\ lastOp' = Op("fetchFailure", request.id, -1,
                        IF throws THEN "DeveloperError" ELSE "ok", Undefined)
        /\ UNCHANGED <<defaultTexture, loadedImages, lastUpdatedFrame, destroyed,
                       destroyCalled, nextRequest, origin, requested, policy>>

\* ---------------------------------------------------------- createTexture
\* (variant: the comparison with the default texture inverted)
DestroysOldInverted(oldTexture, context) ==
    defined(oldTexture) /\ oldTexture = context.defaultTexture

\* the old texture is destroyed unless it is unset or the context's default
DestroysOld(oldTexture, context) ==
    defined(oldTexture) /\ oldTexture # context.defaultTexture

\* outcome: what the Renderer does for this entry: "ok", "ctor" (new Texture
\* throws) or "mip" (the sampler's minification filter is a mipmap filter and
\* texture.generateMipmap throws).
createTexture(st, loadedImage, context, outcome) ==
    LET id == loadedImage.id
        texture == Tex(Len(st.origin) + 1)
        built == [st EXCEPT !.origin = Append(@, loadedImage.req)]
        oldTexture == st.textures[id]
        retired == [built EXCEPT !.destroyCalls = TextureDestroy(@, oldTexture)]
    IN  IF outcome = "ctor" THEN [st EXCEPT !.result = "RuntimeError"]
        ELSE IF outcome = "mip"
        THEN [built EXCEPT !.result = "RuntimeError"]
        ELSE IF DestroysOld(oldTexture, context)
        THEN IF TextureDestroyThrows(st.destroyCalls, oldTexture)
             THEN [retired EXCEPT !.result = "DeveloperError"]
             ELSE SetTexture(retired, id, texture)
        ELSE SetTexture(built, id, texture)

\* ----------------------------------------------------------------- update
\* (variant: only an older frame number is skipped)
AlreadyUpdatedOlder(frameNumber) == frameNumber < lastUpdatedFrame

\* update only needs to be called once a frame
AlreadyUpdated(frameNumber) == frameNumber = lastUpdatedFrame

\* (variant: the loop stops one entry early, i < loadedImages.length - 1)
RECURSIVE CreateTexturesSkipLast(_, _, _, _, _, _)
CreateTexturesSkipLast(st, images, i, context, failAt, failKind) ==
    IF i > Len(images) - 1 \/ st.result # "ok" THEN st
    ELSE CreateTexturesSkipLast(
             createTexture(st, images[i], context,
                           IF i = failAt THEN failKind ELSE "ok"),
             images, i + 1, context, failAt, failKind)

\* the for loop over loadedImages, from index i on; it ends at the first throw
RECURSIVE CreateTextures(_, _, _, _, _, _)
CreateTextures(st, images, i, context, failAt, failKind) ==
    IF i > Len(images) \/ st.result # "ok" THEN st
    ELSE CreateTextures(
             createTexture(st, images[i], context,
                           IF i = failAt THEN failKind ELSE "ok"),
             images, i + 1, context, failAt, failKind)

\* loadedImages.length = 0, reached only when the loop did not throw
ClearLoaded(images, result) == IF result = "ok" THEN <<>> ELSE images

update(frameState, failAt, failKind) ==
    LET context == frameState.context
        st == [textures |-> textures, keyOrder |-> keyOrder, origin |-> origin,
               destroyCalls |-> destroyCalls, result |-> "ok"]
        after == CreateTextures(st, loadedImages, 1, context, failAt, failKind)
    IN  IF AlreadyUpdated(frameState.frameNumber)
        THEN /\ lastOp' = Op("update", "", frameState.frameNumber, "noop", Undefined)
             /\ UNCHANGED <<defaultTexture, textures, keyOrder, loadedImages,
                            lastUpdatedFrame, origin, destroyCalls>>
        ELSE /\ lastUpdatedFrame' = frameState.frameNumber
             /\ defaultTexture' = context.defaultTexture
             /\ textures' = after.textures
             /\ keyOrder' = after.keyOrder
             /\ origin' = after.origin
             /\ destroyCalls' = after.destroyCalls
             /\ loadedImages' = ClearLoaded(loadedImages, after.result)
             /\ lastOp' = Op("update", "", frameState.frameNumber, after.result, Undefined)

\* failAt, failKind: the entry of the queue (0: none) at which the Renderer
\* throws, and where it throws
Failures ==
    {<<0, "ok">>} \cup
    {<<i, "ctor">> : i \in 1 .. Len(loadedImages)} \cup
    {<<i, "mip">> : i \in 1 .. Len(loadedImages)}

Update(frameNumber, default, failAt, failKind) ==
    /\ Len(origin) + Len(loadedImages) <= MaxTextures
    /\ IF destroyed
       THEN /\ failAt = 0
            /\ lastOp' = Thrown("update")
            /\ UNCHANGED <<defaultTexture, textures, keyOrder, loadedImages,
                           lastUpdatedFrame, origin, destroyCalls>>
       ELSE update([frameNumber |-> frameNumber,
                    context |-> [defaultTexture |-> default]], failAt, failKind)
    /\ UNCHANGED <<destroyed, destroyCalled, inflight, nextRequest, requested, policy>>

\* ------------------------------------------------------------ isDestroyed
isDestroyed == destroyed

\* ---------------------------------------------------------------- destroy
\* instance !== this._defaultTexture
DestroysInstance(instance, default) == instance # default

\* the for-in loop over the own keys of this._textures, from index i on
RECURSIVE DestroyTextures(_, _)
DestroyTextures(st, i) ==
    IF i > Len(keyOrder) \/ st.result # "ok" THEN st
    ELSE LET instance == textures[keyOrder[i]]
         IN  IF ~DestroysInstance(instance, defaultTexture)
             THEN DestroyTextures(st, i + 1)
             ELSE IF ~defined(instance)
             THEN [st EXCEPT !.result = "TypeError"]
             ELSE DestroyTextures(
                      [destroyCalls |-> TextureDestroy(st.destroyCalls, instance),
                       result |-> IF TextureDestroyThrows(st.destroyCalls, instance)
                                  THEN "DeveloperError" ELSE "ok"],
                      i + 1)

destroy ==
    LET after == DestroyTextures([destroyCalls |-> destroyCalls, result |-> "ok"], 1)
    IN  /\ destroyCalls' = after.destroyCalls
        /\ IF after.result = "ok" THEN destroyObject ELSE UNCHANGED destroyed
        /\ lastOp' = Op("destroy", "", -1, after.result, Undefined)

Destroy ==
    /\ destroyCalled' = TRUE
    /\ IF destroyed
       THEN /\ lastOp' = Thrown("destroy")
            /\ UNCHANGED <<destroyed, destroyCalls>>
       ELSE destroy
    /\ UNCHANGED <<defaultTexture, textures, keyOrder, loadedImages,
                   lastUpdatedFrame, inflight, nextRequest, origin, requested, policy>>

\* ------------------------------------- createTexture: sampler and dimensions
\* The part of createTexture that decides how the texture is built from the
\* uniform and the context (lines 97-156), run on its own.

\* TextureMinificationFilter and TextureWrap
MinificationFilters ==
    {"NEAREST", "LINEAR", "NEAREST_MIPMAP_NEAREST", "LINEAR_MIPMAP_NEAREST",
     "NEAREST_MIPMAP_LINEAR", "LINEAR_MIPMAP_LINEAR"}

Wraps == {"CLAMP_TO_EDGE", "REPEAT", "MIRRORED_REPEAT"}

Dims == (1 .. MaxDim) \cup {37, 50}

\* the uniform (its typedArray or its fetched image, and its sampler) and the
\* context given to createTexture
PolicyInputs ==
    [raw : BOOLEAN, width : Dims, height : Dims, minificationFilter : MinificationFilters,
     wrapS : Wraps, wrapT : Wraps, webgl2 : BOOLEAN]

\* CesiumMath.isPowerOfTwo
RECURSIVE isPowerOfTwo(_)
isPowerOfTwo(n) ==
    IF n <= 0 THEN FALSE
    ELSE IF n = 1 THEN TRUE
    ELSE n % 2 = 0 /\ isPowerOfTwo(n \div 2)

\* CesiumMath.nextPowerOfTwo: the smallest power of two that is at least n
RECURSIVE PowerOfTwoFrom(_, _)
PowerOfTwoFrom(p, n) == IF p >= n THEN p ELSE PowerOfTwoFrom(2 * p, n)

nextPowerOfTwo(n) == PowerOfTwoFrom(1, n)

\* the canvas the image is drawn to
resizeImageToNextPowerOfTwo(image) ==
    [width |-> nextPowerOfTwo(image.width), height |-> nextPowerOfTwo(image.height)]

\* (variant: the last of the four mipmap filters left out)
generateMipmapThree(minFilter) ==
    \/ minFilter = "NEAREST_MIPMAP_NEAREST"
    \/ minFilter = "NEAREST_MIPMAP_LINEAR"
    \/ minFilter = "LINEAR_MIPMAP_NEAREST"

generateMipmap(minFilter) ==
    \/ minFilter = "NEAREST_MIPMAP_NEAREST"
    \/ minFilter = "NEAREST_MIPMAP_LINEAR"
    \/ minFilter = "LINEAR_MIPMAP_NEAREST"
    \/ minFilter = "LINEAR_MIPMAP_LINEAR"

requiresPowerOfTwo(minFilter, wrapS, wrapT) ==
    \/ generateMipmap(minFilter)
    \/ wrapS = "REPEAT"
    \/ wrapS = "MIRRORED_REPEAT"
    \/ wrapT = "REPEAT"
    \/ wrapT = "MIRRORED_REPEAT"

nonPowerOfTwo(width, height) == ~isPowerOfTwo(width) \/ ~isPowerOfTwo(height)

\* typedArray: console.warn is reached
WarnsTypedArray(webgl2, npot, requiresPot) == ~webgl2 /\ npot /\ requiresPot

\* (variant: the capability of the context is not looked at)
ResizesImageAlways(webgl2, requiresPot, npot) == requiresPot /\ npot

\* image: resizeImageToNextPowerOfTwo is reached
ResizesImage(webgl2, requiresPot, npot) == ~webgl2 /\ requiresPot /\ npot

\* what createTexture hands to new Texture, and whether it warned, resized and
\* generated the mipmap
realize(u) ==
    LET mipmap == generateMipmap(u.minificationFilter)
        requiresPot == requiresPowerOfTwo(u.minificationFilter, u.wrapS, u.wrapT)
        npot == nonPowerOfTwo(u.width, u.height)
        resized == ~u.raw /\ ResizesImage(u.webgl2, requiresPot, npot)
        image == [width |-> u.width, height |-> u.height]
        source == IF resized THEN resizeImageToNextPowerOfTwo(image) ELSE image
    IN  [warned |-> u.raw /\ WarnsTypedArray(u.webgl2, npot, requiresPot),
         resized |-> resized,
         width |-> source.width,
         height |-> source.height,
         requiresPowerOfTwo |-> requiresPot,
         generateMipmap |-> mipmap]

Realize ==
    /\ policy.phase = "input"
    /\ policy' = [phase |-> "done", uniform |-> policy.uniform,
                  texture |-> realize(policy.uniform)]
    /\ UNCHANGED <<defaultTexture, textures, keyOrder, loadedImages, lastUpdatedFrame,
                   destroyed, destroyCalled, inflight, nextRequest, origin,
                   destroyCalls, lastOp, requested>>

PolicyInit ==
    /\ policy \in {[phase |-> "input", uniform |-> u] : u \in PolicyInputs}
    /\ defaultTexture = Undefined
    /\ textures = [k \in Keys |-> Undefined]
    /\ keyOrder = <<>>
    /\ loadedImages = <<>>
    /\ lastUpdatedFrame = -1
    /\ destroyed = FALSE
    /\ destroyCalled = FALSE
    /\ inflight = {}
    /\ nextRequest = 0
    /\ origin = <<>>
    /\ destroyCalls = [t \in Handles |-> "none"]
    /\ lastOp = NoOp
    /\ requested = {}

PolicyNext == Realize

PolicySpec == PolicyInit /\ [][PolicyNext]_vars

\* ------------------------------------------------------------------- spec
Next ==
    \/ \E k \in Keys : GetTexture(k)
    \/ \E k \in Keys, u \in Uniforms : LoadTexture2D(k, u)
    \/ \E r \in inflight : FetchSuccess(r)
    \/ \E r \in inflight : FetchFailure(r)
    \/ \E f \in Frames, d \in Defaults, fail \in Failures :
          Update(f, d, fail[1], fail[2])
    \/ Destroy

Spec == Init /\ [][Next]_vars

\* The manager in a render loop that never destroys it and whose Renderer
\* never throws from new Texture or generateMipmap: update keeps being called
\* with a frame number other than the last one.
LiveLoad == \E k \in Keys, u \in Uniforms : LoadTexture2DWithin(MaxLiveRequests, k, u)

LiveFetchSuccess == \E r \in inflight : FetchSuccess(r)

LiveFetchFailure == \E r \in inflight : FetchFailure(r)

LiveUpdate == \E f \in Frames, d \in Defaults : Update(f, d, 0, "ok")

NewFrameUpdate ==
    \E f \in Frames \ {lastUpdatedFrame}, d \in Defaults : Update(f, d, 0, "ok")

LiveNext == LiveLoad \/ LiveFetchSuccess \/ LiveFetchFailure \/ LiveUpdate

LiveSpec == Init /\ [][LiveNext]_vars /\ WF_vars(NewFrameUpdate)

\* ================================================================= claims
Present == Range(keyOrder)

Built == {Tex(i) : i \in 1 .. Len(origin)}

\* entry i of queue q is the last one of its texture id
LastForId(q, i) == \A j \in (i + 1) .. Len(q) : q[j].id # q[i].id

\* the textures the last update built from the request of entry e
BuiltFrom(e) ==
    {Tex(n) : n \in {m \in (lastOp.built + 1) .. Len(origin) : origin[m] = e.req}}

UpdateReturned == lastOp.op = "update" /\ lastOp.live /\ lastOp.result = "ok"

\* C1: until destroy() is called, every key of the texture table maps to a
\* texture that has not been destroyed, never to undefined.
C1_TableHoldsLiveTextures ==
    ~destroyCalled =>
        \A k \in Present : defined(textures[k]) /\ destroyCalls[textures[k]] = "none"

\* C2: no texture supplied as context.defaultTexture is ever destroyed by the
\* manager.
C2_DefaultNeverDestroyed == \A d \in Defaults : destroyCalls[d] = "none"

\* C3: destroy() is invoked at most once on every texture the manager built,
\* and while the manager is not torn down only on a texture that left the table.
C3_DestroyedAtMostOnce ==
    /\ \A t \in Built : destroyCalls[t] # "again"
    /\ ~destroyCalled =>
           \A k \in Present : textures[k] \in Built => destroyCalls[textures[k]] = "none"

\* C4: destroy() on a live manager completes; afterwards every texture the
\* manager built has been destroyed exactly once and no default texture has.
C4_DestroyReleasesAll ==
    (lastOp.op = "destroy" /\ lastOp.live) =>
        /\ lastOp.result = "ok"
        /\ \A t \in Built : destroyCalls[t] = "once"
        /\ \A d \in Defaults : destroyCalls[d] = "none"

\* C5: an update whose frame number equals the last processed one builds and
\* destroys nothing and leaves the table, the queue, the default reference and
\* the frame number as they are.
C5_UpdateOncePerFrame ==
    [][(lastOp'.op = "update" /\ lastOp'.frame = lastUpdatedFrame) =>
           UNCHANGED <<textures, keyOrder, loadedImages, defaultTexture,
                       lastUpdatedFrame, origin, destroyCalls>>]_vars

C5_Witness ==
    /\ lastOp.op = "update" /\ lastOp.live /\ lastOp.result = "noop"
    /\ lastOp.frame = lastUpdatedFrame
    /\ loadedImages # <<>>

\* the last call was an update that returned and that came right after a
\* loadTexture2D call which queued a raw-buffer entry
UpdateAfterRawLoad ==
    /\ lastOp.op = "update" /\ lastOp.live /\ lastOp.result \in {"ok", "noop"}
    /\ lastOp.afterLoad
    /\ lastOp.queue # <<>>
    /\ lastOp.queue[Len(lastOp.queue)].req = nextRequest
    /\ lastOp.queue[Len(lastOp.queue)].raw

C7_FailureInstallsDefault ==
    lastOp.op = "fetchFailure" =>
        /\ lastOp.result = "ok"
        /\ textures[lastOp.key] \in Defaults
        /\ lastOp.old \in Built => destroyCalls[lastOp.old] = "once"

\* C8: when an update drains a queue with two entries of one key, the table
\* holds for the key the texture built from the last of them, and the texture
\* built from the earlier one has been built and destroyed, and is not
\* installed under any key.
C8_LaterEntryWins ==
    UpdateReturned =>
        \A i \in 1 .. Len(lastOp.queue) :
            IF LastForId(lastOp.queue, i)
            THEN getTexture(lastOp.queue[i].id) \in BuiltFrom(lastOp.queue[i])
            ELSE /\ BuiltFrom(lastOp.queue[i]) # {}
                 /\ \A t \in BuiltFrom(lastOp.queue[i]) :
                        /\ destroyCalls[t] = "once"
                        /\ \A k \in Keys : textures[k] # t

C8_Witness ==
    /\ UpdateReturned
    /\ loadedImages = <<>>
    /\ \E i, j \in 1 .. Len(lastOp.queue) :
           /\ i < j
           /\ lastOp.queue[i].id = lastOp.queue[j].id
           /\ getTexture(lastOp.queue[j].id) \in BuiltFrom(lastOp.queue[j])
           /\ \E t \in BuiltFrom(lastOp.queue[i]) : destroyCalls[t] = "once"

\* C9: no request has a texture built from it more than once.
C9_RealizedAtMostOnce ==
    \A m, n \in 1 .. Len(origin) : origin[m] = origin[n] => m = n

\* C10: after destroy() isDestroyed() is true and getTexture, loadTexture2D,
\* update and destroy throw a DeveloperError; before destroy() isDestroyed()
\* is false.
C10_UseAfterDestroy ==
    /\ destroyCalled => isDestroyed
    /\ (destroyCalled /\ lastOp.op \in {"getTexture", "loadTexture2D", "update"}) =>
           lastOp.result = "DeveloperError"
    /\ ~destroyCalled => ~isDestroyed

\* texture ids with a load in flight or queued and not yet realized
Pending == {r.id : r \in inflight} \cup {loadedImages[i].id : i \in 1 .. Len(loadedImages)}

\* C11: while the load of a requested key is pending, getTexture gives for
\* the key a texture (the shared default one), not undefined.
C11_PendingShowsDefault ==
    ~destroyCalled => \A k \in Pending : defined(getTexture(k))

\* C12: getTexture gives undefined for every key never passed to
\* loadTexture2D, and a getTexture call changes nothing of the manager.
C12_GetTextureIsPureLookup ==
    /\ [](\A k \in Keys \ requested : getTexture(k) = Undefined)
    /\ [][lastOp'.op = "getTexture" =>
              /\ UNCHANGED <<textures, keyOrder, loadedImages, lastUpdatedFrame,
                             defaultTexture, origin, destroyCalls, inflight>>
              /\ lastOp'.live => lastOp'.value = textures[lastOp'.key]]_vars

C12_Witness ==
    /\ lastOp.op = "getTexture" /\ lastOp.live
    /\ lastOp.key \notin requested
    /\ requested # {}
    /\ defaultTexture \in Defaults
    /\ lastOp.value = Undefined

Done == policy.phase = "done"

PowersOfTwo == {1, 2, 4, 8, 16, 32, 64}

MipmapFilters ==
    {"NEAREST_MIPMAP_NEAREST", "LINEAR_MIPMAP_NEAREST", "NEAREST_MIPMAP_LINEAR",
     "LINEAR_MIPMAP_LINEAR"}

\* the sampler of the uniform needs power-of-two dimensions
NeedsPowerOfTwo(u) ==
    \/ u.minificationFilter \in MipmapFilters
    \/ u.wrapS \in {"REPEAT", "MIRRORED_REPEAT"}
    \/ u.wrapT \in {"REPEAT", "MIRRORED_REPEAT"}

NotPowerOfTwo(u) == u.width \notin PowersOfTwo \/ u.height \notin PowersOfTwo

\* p is the smallest power of two that is at least n
SmallestPowerOfTwo(p, n) ==
    /\ p \in PowersOfTwo
    /\ p >= n
    /\ \A q \in PowersOfTwo : q >= n => p <= q

\* C13: for a raw buffer with a dimension that is no power of two and a
\* sampler that needs powers of two, createTexture warns, with or without
\* context.webgl2, and builds the texture with the dimensions of the buffer.
C13_RawBufferWarns ==
    (Done /\ policy.uniform.raw /\ NotPowerOfTwo(policy.uniform)
          /\ NeedsPowerOfTwo(policy.uniform)) =>
        /\ policy.texture.warned
        /\ ~policy.texture.resized
        /\ policy.texture.width = policy.uniform.width
        /\ policy.texture.height = policy.uniform.height

\* C14: an image is resized exactly when the context has no webgl2, the
\* sampler needs powers of two and a dimension is no power of two; each side
\* then becomes the smallest power of two that is at least as large (37x50
\* becomes 64x64); otherwise the image keeps its dimensions.
C14_ImageResizedWhenNeeded ==
    (Done /\ ~policy.uniform.raw) =>
        LET u == policy.uniform
            t == policy.texture
            needed == ~u.webgl2 /\ NeedsPowerOfTwo(u) /\ NotPowerOfTwo(u)
        IN  /\ t.resized = needed
            /\ needed => /\ SmallestPowerOfTwo(t.width, u.width)
                         /\ SmallestPowerOfTwo(t.height, u.height)
            /\ ~needed => t.width = u.width /\ t.height = u.height
            /\ (needed /\ u.width = 37 /\ u.height = 50) =>
                   t.width = 64 /\ t.height = 64

C14_Witness ==
    /\ Done /\ ~policy.uniform.raw /\ ~policy.uniform.webgl2
    /\ policy.uniform.width = 37 /\ policy.uniform.height = 50
    /\ policy.uniform.wrapS = "REPEAT"
    /\ policy.texture.resized
    /\ policy.texture.width = 64 /\ policy.texture.height = 64

\* C18: createTexture requires powers of two exactly when the minification
\* filter is one of the four mipmap filters or a wrap is REPEAT or
\* MIRRORED_REPEAT, and generates the mipmap exactly when the filter is one of
\* the four.
C18_SamplerDecides ==
    Done =>
        /\ policy.texture.requiresPowerOfTwo = NeedsPowerOfTwo(policy.uniform)
        /\ policy.texture.generateMipmap =
               (policy.uniform.minificationFilter \in MipmapFilters)

C18_Witness ==
    /\ Done /\ policy.uniform.raw
    /\ policy.uniform.minificationFilter = "NEAREST"
    /\ policy.uniform.width = 4 /\ policy.uniform.height = 4
    /\ ~policy.texture.generateMipmap
    /\ policy.texture.width = 4 /\ policy.texture.height = 4

\* C15: a loadTexture2D call builds and destroys no texture and leaves the
\* table as it is; with a typedArray it appends one entry for its id to the
\* queue, with a resource it appends nothing and only starts the fetch.
C15_LoadLeavesTable ==
    [][(lastOp'.op = "loadTexture2D" /\ lastOp'.live) =>
           /\ UNCHANGED <<textures, keyOrder, origin, destroyCalls, defaultTexture,
                          lastUpdatedFrame>>
           /\ \/ /\ Len(loadedImages') = Len(loadedImages) + 1
                 /\ SubSeq(loadedImages', 1, Len(loadedImages)) = loadedImages
                 /\ loadedImages'[Len(loadedImages')].raw
                 /\ loadedImages'[Len(loadedImages')].id = lastOp'.key
                 /\ inflight' = inflight
              \/ /\ loadedImages' = loadedImages
                 /\ \E r \in inflight' \ inflight :
                        /\ ~r.raw
                        /\ r.id = lastOp'.key
                        /\ inflight' = inflight \cup {r}]_vars

C15_Witness ==
    /\ lastOp.op = "loadTexture2D" /\ lastOp.live
    /\ lastOp.old \in Created
    /\ getTexture(lastOp.key) = lastOp.old
    /\ \E r \in inflight : r.id = lastOp.key /\ r.req = nextRequest

\* C16: a fetched image is appended at the end of the queue when its fetch
\* resolves, whatever the order of the requests; an update that drains the
\* queue builds one texture per entry in the order of the queue, and leaves
\* under every drained key the texture of the entry of the key that was
\* queued last.
C16_ResolutionOrderDecides ==
    /\ [][lastOp'.op = "fetchSuccess" =>
              \E r \in inflight :
                  /\ inflight' = inflight \ {r}
                  /\ loadedImages' = Append(loadedImages, r)]_vars
    /\ [](UpdateReturned =>
              /\ Len(origin) = lastOp.built + Len(lastOp.queue)
              /\ \A i \in 1 .. Len(lastOp.queue) :
                     /\ origin[lastOp.built + i] = lastOp.queue[i].req
                     /\ LastForId(lastOp.queue, i) =>
                            getTexture(lastOp.queue[i].id) = Tex(lastOp.built + i))

C16_Witness ==
    /\ UpdateReturned
    /\ \E i, j \in 1 .. Len(lastOp.queue) :
           /\ i < j
           /\ lastOp.queue[i].id = lastOp.queue[j].id
           /\ lastOp.queue[i].req > lastOp.queue[j].req
           /\ getTexture(lastOp.queue[j].id) = Tex(lastOp.built + j)
           /\ origin[lastOp.built + j] = lastOp.queue[j].req

\* C19: when the Renderer throws while update realizes an entry, update
\* throws, no texture installed in the table has been destroyed, and every
\* texture built by this update is installed or destroyed: none is left
\* alive outside the table.
C19_FailedCreationLeaksNothing ==
    (lastOp.op = "update" /\ lastOp.live /\ ~destroyCalled
         /\ lastOp.result = "RuntimeError") =>
        /\ \A k \in Present :
               textures[k] \in Built => destroyCalls[textures[k]] = "none"
        /\ \A n \in (lastOp.built + 1) .. Len(origin) :
               destroyCalls[Tex(n)] = "none" => \E k \in Keys : textures[k] = Tex(n)

\* C20: once the manager is destroyed, a fetch callback that arrives builds
\* no texture, calls destroy on no texture and leaves the table as it is.
C20_DestroyedIsTerminal ==
    [][(destroyed /\ lastOp'.op \in {"fetchSuccess", "fetchFailure"}) =>
           UNCHANGED <<textures, keyOrder, origin, destroyCalls>>]_vars

TouchedKeys ==
    IF lastOp'.op = "update" THEN {loadedImages[i].id : i \in 1 .. Len(loadedImages)}
    ELSE IF lastOp'.op = "fetchFailure" THEN {lastOp'.key}
    ELSE Keys

\* C21: realizing the queued entries of key k in update, or handling a failed
\* fetch for key k, changes the table entry of k only: the entry of every
\* other key j is the same afterwards and the texture installed under j has
\* not been destroyed by the step.
C21_KeyIsolation ==
    [][\A j \in Keys \ TouchedKeys :
           /\ textures'[j] = textures[j]
           /\ defined(textures[j]) => destroyCalls'[textures[j]] = destroyCalls[textures[j]]]_vars

====
